---- MODULE Spec2Model ----
(***************************************************************************)
(* Model of the two process-wide configuration singletons:                 *)
(*   Variant A  src/neurotutorials/settings.py  (key data_path)            *)
(*   Variant B  src/pynacollada/settings.py     (keys data_dir and         *)
(*                                               unique_data_dir)          *)
(* One behaviour follows one variant (chosen in Init) through a sequence   *)
(* of calls made by the importing program.  Python values are tagged       *)
(* records, dict objects are insertion-ordered sequences of <<key, value>> *)
(* pairs, and the two dict objects that can be shared (the one inside the  *)
(* module-level defaults and the one a caller handed to the store) live in *)
(* a heap, so that aliasing is visible.                                    *)
(***************************************************************************)
EXTENDS Naturals, Sequences, FiniteSets, TLC

VARIABLES
    variant,    \* "A" or "B": which settings.py this process imported
    instance,   \* Config._instance: 0 is None, otherwise the object's identity
    handles,    \* identities of the objects construction calls have returned
    dict,       \* _instance.__dict__, an ordered sequence of <<key, value>>
    heap,       \* contents of the shareable dict objects "d0" and "d1"
    file,       \* the local configuration file in the working directory
    saved,      \* the mapping the last save() wrote to the local file, if any
    removed,    \* whether a key has been deleted from the store of this process
    last        \* the last call: what was called, with what, and its outcome

vars == <<variant, instance, handles, dict, heap, file, saved, removed, last>>

\* Largest number of entries in a mapping submitted to update().
MaxEntries == 2

----------------------------------------------------------------------------
(* Python values *)

Str(s) == [t |-> "str", s |-> s, m |-> <<>>]
PathObj(s) == [t |-> "path", s |-> s, m |-> <<>>]
Int(s) == [t |-> "int", s |-> s, m |-> <<>>]
Ref(a) == [t |-> "ref", s |-> a, m |-> <<>>]
DictLit(m) == [t |-> "dict", s |-> "", m |-> m]
NoArg == [t |-> "none", s |-> "", m |-> <<>>]

(* JSON values, as they stand in a file *)
JStr(s) == [t |-> "jstr", s |-> s, m |-> <<>>]
JNum(s) == [t |-> "jnum", s |-> s, m |-> <<>>]
JObj(m) == [t |-> "jobj", s |-> "", m |-> m]

(* Insertion-ordered dicts: sequences of <<key, value>> with distinct keys *)
Keys(d) == {d[i][1] : i \in DOMAIN d}
Has(d, k) == k \in Keys(d)
Get(d, k) == d[CHOOSE i \in DOMAIN d : d[i][1] = k][2]
Put(d, k, v) ==
    IF Has(d, k)
    THEN [i \in DOMAIN d |-> IF d[i][1] = k THEN <<k, v>> ELSE d[i]]
    ELSE Append(d, <<k, v>>)
Del(d, k) == SelectSeq(d, LAMBDA e : e[1] # k)

\* dict.update(other): every entry of other, in other's order
RECURSIVE Merge(_, _)
Merge(d, other) ==
    IF other = <<>> THEN d
    ELSE Merge(Put(d, Head(other)[1], Head(other)[2]), Tail(other))

\* Python == on values: dicts compare without regard to order
ValEq(v, w) ==
    IF v.t = "dict" /\ w.t = "dict"
    THEN /\ Keys(v.m) = Keys(w.m)
         /\ \A k \in Keys(v.m) : Get(v.m, k) = Get(w.m, k)
    ELSE v = w
SameMapping(d, e) ==
    /\ Keys(d) = Keys(e)
    /\ \A k \in Keys(d) : ValEq(Get(d, k), Get(e, k))

\* what a reader of the store sees: references followed to their contents
Deref(v, h) == IF v.t = "ref" THEN DictLit(h[v.s]) ELSE v
View(d, h) == [i \in DOMAIN d |-> <<d[i][1], Deref(d[i][2], h)>>]

----------------------------------------------------------------------------
(* The environment *)

LOCAL_CONFIG == "conf.json"
\* a path in a directory that does not exist: nothing can be read or written
NO_SUCH_DIR == "/nodir/conf.json"
ConfFiles == {LOCAL_CONFIG, NO_SUCH_DIR}

Cwd == "/cwd"
ExistingPaths == {Cwd, "/a"}
\* os.path.exists on a value: strings and path objects are looked up, any
\* other type is a TypeError of os.stat
PathExists(v) == v.t \in {"str", "path"} /\ v.s \in ExistingPaths

Absent == [st |-> "absent", j |-> JNum("0")]
Corrupt == [st |-> "corrupt", j |-> JNum("0")]
Json(j) == [st |-> "json", j |-> j]

----------------------------------------------------------------------------
(* json.dump and json.load *)

RECURSIVE Serializable(_)
Serializable(v) ==
    \/ v.t \in {"str", "int"}
    \/ v.t = "dict" /\ \A i \in DOMAIN v.m : Serializable(v.m[i][2])
ToJsonScalar(v) == IF v.t = "str" THEN JStr(v.s) ELSE JNum(v.s)
ToJson_empty(v) == IF v.t = "dict" THEN JObj(<<>>) ELSE ToJsonScalar(v)
RECURSIVE ToJson(_)
ToJson(v) ==
    IF v.t = "dict"
    THEN JObj([i \in DOMAIN v.m |-> <<v.m[i][1], ToJson(v.m[i][2])>>])
    ELSE ToJsonScalar(v)
FromJsonScalar(j) == IF j.t = "jstr" THEN Str(j.s) ELSE Int(j.s)
RECURSIVE FromJson(_)
FromJson(j) ==
    IF j.t = "jobj"
    THEN DictLit([i \in DOMAIN j.m |-> <<j.m[i][1], FromJson(j.m[i][2])>>])
    ELSE FromJsonScalar(j)

\* json.dump(self.__dict__, f, indent=4) into a file opened with "w": the file
\* is truncated first and written piecewise, so a value json cannot encode
\* leaves a fragment that is not JSON
dump(d, h) ==
    IF Serializable(DictLit(View(d, h)))
    THEN Json(ToJson(DictLit(View(d, h))))
    ELSE Corrupt

\* save(conf_file): the result and the file afterwards
save(d, h, f, conf_file) ==
    IF conf_file # LOCAL_CONFIG THEN [res |-> "FileNotFoundError", file |-> f]
    ELSE [res |-> IF dump(d, h) = Corrupt THEN "TypeError" ELSE "ok",
          file |-> dump(d, h)]

\* open(conf_file, "r") followed by json.load: "ok" with the parsed value,
\* or the exception
read(f, conf_file) ==
    IF conf_file # LOCAL_CONFIG \/ f.st = "absent"
    THEN [res |-> "FileNotFoundError", conf |-> NoArg]
    ELSE IF f.st = "corrupt" THEN [res |-> "JSONDecodeError", conf |-> NoArg]
    ELSE [res |-> "ok", conf |-> FromJson(f.j)]
exists(f, conf_file) == conf_file = LOCAL_CONFIG /\ f.st # "absent"

----------------------------------------------------------------------------
(* Variant A: src/neurotutorials/settings.py *)

data_path == "/cwd/data"
defaults_A ==
    << <<"data_path", Str(IF data_path \in ExistingPaths THEN data_path ELSE Cwd)>> >>

validate_conf_A(conf) ==
    IF conf.t # "dict" THEN "ValueError"
    ELSE IF ~Has(conf.m, "data_path") THEN "KeyError"
    ELSE IF Get(conf.m, "data_path").t \notin {"str", "path", "int"} THEN "TypeError"
    ELSE IF ~PathExists(Get(conf.m, "data_path")) THEN "ValueError"
    ELSE "ok"

update_A_unchecked(d, h, conf) ==
    [res |-> validate_conf_A(conf),
     dict |-> IF conf.t = "dict" THEN Merge(d, conf.m) ELSE d, heap |-> h]
update_A(d, h, conf) ==
    IF validate_conf_A(conf) = "ok"
    THEN [res |-> "ok", dict |-> Merge(d, conf.m), heap |-> h]
    ELSE [res |-> validate_conf_A(conf), dict |-> d, heap |-> h]

setitem_A(d, h, key, value) == update_A(d, h, DictLit(<< <<key, value>> >>))

load_A(d, h, f, conf_file) ==
    IF read(f, conf_file).res # "ok"
    THEN [res |-> read(f, conf_file).res, dict |-> d, heap |-> h]
    ELSE update_A(d, h, read(f, conf_file).conf)

\* the body of "if cls._instance is None" in __new__, on the new object
init_A(h, f, conf_file, dflt) ==
    IF exists(f, conf_file)
    THEN load_A(<<>>, h, f, conf_file)
    ELSE update_A(<<>>, h, DictLit(dflt))

----------------------------------------------------------------------------
(* Variant B: src/pynacollada/settings.py *)

DATA_SETS == {"A", "B"}
DEFAULT_DIR == "/cache"
defaults_B == << <<"data_dir", Str(DEFAULT_DIR)>>, <<"unique_data_dir", Ref("d0")>> >>

\* the loop over value.items() of the unique_data_dir case: the index of the
\* first entry that raises (Len + 1 if none does), the exception it raises,
\* and the dict as the loop leaves it (entries before that index coerced)
BadEntry(e) == e[1] \notin DATA_SETS \/ e[2].t \notin {"str", "path"}
FirstBad(m) ==
    IF \E i \in DOMAIN m : BadEntry(m[i])
    THEN CHOOSE i \in DOMAIN m :
            BadEntry(m[i]) /\ \A j \in DOMAIN m : j < i => ~BadEntry(m[j])
    ELSE Len(m) + 1
Coerced(m) ==
    [i \in DOMAIN m |->
        IF i < FirstBad(m) /\ m[i][2].t = "path"
        THEN <<m[i][1], Str(m[i][2].s)>> ELSE m[i]]
LoopError(m) ==
    IF FirstBad(m) > Len(m) THEN "ok"
    ELSE IF m[FirstBad(m)][1] \notin DATA_SETS THEN "ValueError"
    ELSE "TypeError"

\* the wrapper of _validate_conf up to its call of func: the outcome, the value
\* handed on to func, and the heap (a dict object that is validated is coerced
\* in place)
validate_conf_B(key, value, h) ==
    IF key = "data_dir"
    THEN IF value.t = "path" THEN [res |-> "ok", value |-> Str(value.s), heap |-> h]
         ELSE IF value.t # "str" THEN [res |-> "TypeError", value |-> value, heap |-> h]
         ELSE [res |-> "ok", value |-> value, heap |-> h]
    ELSE IF key = "unique_data_dir"
    THEN IF value.t = "ref"
         THEN [res |-> LoopError(h[value.s]), value |-> value,
               heap |-> [h EXCEPT ![value.s] = Coerced(h[value.s])]]
         ELSE IF value.t = "dict"
         THEN [res |-> LoopError(value.m), value |-> DictLit(Coerced(value.m)),
               heap |-> h]
         ELSE [res |-> "TypeError", value |-> value, heap |-> h]
    ELSE [res |-> "ok", value |-> value, heap |-> h]

\* self.__dict__[key] = value; a dict a caller built becomes the object "d1"
store(d, h, key, value) ==
    IF value.t = "dict"
    THEN [dict |-> Put(d, key, Ref("d1")), heap |-> [h EXCEPT !["d1"] = value.m]]
    ELSE [dict |-> Put(d, key, value), heap |-> h]

setitem_B(d, h, key, value) ==
    LET r == validate_conf_B(key, value, h) IN
    IF r.res = "ok"
    THEN [res |-> "ok", dict |-> store(d, r.heap, key, r.value).dict,
          heap |-> store(d, r.heap, key, r.value).heap]
    ELSE [res |-> r.res, dict |-> d, heap |-> r.heap]

\* MutableMapping.update: self[key] = other[key] for each key, in order, up to
\* the first assignment that raises
RECURSIVE update_items_B(_, _, _)
update_items_B(d, h, items) ==
    IF items = <<>> THEN [res |-> "ok", dict |-> d, heap |-> h]
    ELSE LET r == setitem_B(d, h, Head(items)[1], Head(items)[2]) IN
         IF r.res = "ok" THEN update_items_B(r.dict, r.heap, Tail(items))
         ELSE r
update_B(d, h, conf) ==
    IF conf.t # "dict" THEN [res |-> "TypeError", dict |-> d, heap |-> h]
    ELSE update_items_B(d, h, conf.m)

load_B(d, h, f, conf_file) ==
    IF read(f, conf_file).res # "ok"
    THEN [res |-> read(f, conf_file).res, dict |-> d, heap |-> h]
    ELSE update_B(d, h, read(f, conf_file).conf)

\* the body of "if cls._instance is None" in __new__, on the new object
init_B(h, f, conf_file, dflt) ==
    LET r == update_B(<<>>, h, DictLit(dflt)) IN
    IF r.res # "ok" THEN r
    ELSE IF exists(f, conf_file) THEN load_B(r.dict, r.heap, f, conf_file)
    ELSE r

\* del self.__dict__ leaves the object with an empty __dict__, whatever d was
reset_B_keeping(d, h) == update_B(d, h, DictLit(defaults_B))
reset_B(d, h) == update_B(SubSeq(d, 1, 0), h, DictLit(defaults_B))

delitem_B(d, h, key) ==
    IF Has(d, key) THEN [res |-> "ok", dict |-> Del(d, key), heap |-> h]
    ELSE [res |-> "KeyError", dict |-> d, heap |-> h]

\* MutableMapping.clear: popitem (delete the first key) until KeyError
RECURSIVE clear_B(_, _)
clear_B(d, h) ==
    IF d = <<>> THEN [res |-> "ok", dict |-> d, heap |-> h]
    ELSE clear_B(delitem_B(d, h, Head(d)[1]).dict, h)

----------------------------------------------------------------------------
(* What callers pass in *)

KeysOf(v) == IF v = "A" THEN {"data_path", "note"}
             ELSE {"data_dir", "unique_data_dir", "note"}
ValuesOf(v, key) ==
    IF key = "data_path" THEN {Str("/a"), Str(Cwd), Str("/missing")}
    ELSE IF key = "data_dir" THEN {PathObj("/b"), Int("5")}
    ELSE IF key = "unique_data_dir"
    THEN {DictLit(<< <<"A", PathObj("/b")>> >>), DictLit(<< <<"C", Str("/a")>> >>)}
    ELSE {Str("n")}
Entries(v) == UNION {{<<k, x>> : x \in ValuesOf(v, k)} : k \in KeysOf(v)}
Mappings(v) ==
    UNION {{m \in [1..n -> Entries(v)] :
                \A i, j \in 1..n : i # j => m[i][1] # m[j][1]} : n \in 1..MaxEntries}
ConfsA == {DictLit(m) : m \in Mappings("A")} \cup {Int("5")}
ConfsB == {DictLit(m) : m \in Mappings("B")} \cup {Int("5")}

\* entries written into a dict read from the store
InPlaceEntries == {<<"A", PathObj("/b")>>}

\* what is assigned attribute-style, as in the class docstring's example
AttrEntries(v) == IF v = "A" THEN {<<"data_path", Str("/missing")>>}
                  ELSE {<<"data_dir", PathObj("/b")>>}

\* the defaults argument of a construction call: the module's, or the caller's
AltDefaults_A == << <<"data_path", Str("/a")>>, <<"note", Str("n")>> >>
AltDefaults_B == << <<"data_dir", Str("/b")>>, <<"unique_data_dir", DictLit(<<>>)>> >>

\* the local file as the process finds it
InitFiles(confs) ==
    {Absent, Corrupt}
    \cup {Json(ToJson(c)) : c \in {x \in confs : Serializable(x)}}

----------------------------------------------------------------------------
(* The state machine *)

EmptyHeap == [a \in {"d0", "d1"} |-> <<>>]

\* a dict object nothing refers to any more is gone
Collect(d, h) ==
    IF \E i \in DOMAIN d : d[i][2] = Ref("d1") THEN h ELSE [h EXCEPT !["d1"] = <<>>]

\* the mapping a store holds when it holds exactly the module's defaults
OriginalDefaults(v) ==
    IF v = "A" THEN defaults_A
    ELSE << <<"data_dir", Str(DEFAULT_DIR)>>, <<"unique_data_dir", DictLit(<<>>)>> >>

\* changed: whether the call left the mapping different from what it was;
\* fromDefaults: whether the mapping was the module's defaults when it was made
Call(op, res, fresh, path, arg, d, h) ==
    [op |-> op, res |-> res, fresh |-> fresh, path |-> path, arg |-> arg,
     changed |-> ~SameMapping(View(d, h), View(dict, heap)),
     fromDefaults |-> SameMapping(View(dict, heap), OriginalDefaults(variant))]

Commit(op, r, path, arg) ==
    /\ dict' = r.dict
    /\ heap' = Collect(r.dict, r.heap)
    /\ last' = Call(op, r.res, FALSE, path, arg, r.dict, r.heap)

\* the caller holds the store: a construction call has returned it.  The
\* methods need the object; the class itself can be called without it.
Held == instance # 0 /\ instance \in handles

NothingSaved == [ok |-> FALSE, m |-> <<>>]

\* "if cls._instance is None"
is_None_always(inst) == TRUE
is_None(inst) == inst = 0

\* Config.__new__ on the class state (inst, hs, d, h); r is what populating a
\* new object yields.  An exception leaves _instance set and returns nothing.
new(inst, hs, d, h, r) ==
    IF is_None(inst)
    THEN [instance |-> inst + 1, dict |-> r.dict, heap |-> Collect(r.dict, r.heap),
          handles |-> IF r.res = "ok" THEN hs \cup {inst + 1} ELSE hs,
          res |-> r.res, fresh |-> TRUE]
    ELSE [instance |-> inst, dict |-> d, heap |-> h, handles |-> hs \cup {inst},
          res |-> "ok", fresh |-> FALSE]

\* importing the module: the class body (_instance = None), the module-level
\* defaults, and the last line, config = Config(), with the default arguments.
\* If that call raises, the import raises and nothing has been handed out, but
\* the class keeps the _instance that __new__ assigned before populating it.
import(v, f) ==
    new(0, {}, <<>>, EmptyHeap,
        IF v = "A" THEN init_A(EmptyHeap, f, LOCAL_CONFIG, defaults_A)
        ELSE init_B(EmptyHeap, f, LOCAL_CONFIG, defaults_B))
Imported(v, f) ==
    [op |-> "import", res |-> import(v, f).res, fresh |-> import(v, f).fresh,
     path |-> LOCAL_CONFIG,
     arg |-> DictLit(IF v = "A" THEN defaults_A ELSE defaults_B),
     changed |-> import(v, f).dict # <<>>, fromDefaults |-> FALSE]

Init ==
    /\ variant \in {"A", "B"}
    /\ file \in InitFiles(IF variant = "A" THEN ConfsA ELSE ConfsB)
    /\ instance = import(variant, file).instance
    /\ handles = import(variant, file).handles
    /\ dict = import(variant, file).dict
    /\ heap = import(variant, file).heap
    /\ saved = NothingSaved
    /\ removed = FALSE
    /\ last = Imported(variant, file)

\* Config(conf_file, defaults), called after the import's own call, whether
\* that one returned or raised: __new__ has no precondition
New(r, conf_file, dflt) ==
    LET c == new(instance, handles, dict, heap, r) IN
    /\ instance' = c.instance
    /\ handles' = c.handles
    /\ dict' = c.dict
    /\ heap' = c.heap
    /\ last' = Call("new", c.res, c.fresh, conf_file, DictLit(dflt), c.dict, c.heap)
    /\ UNCHANGED <<variant, file, saved, removed>>

New_A ==
    /\ variant = "A"
    /\ \E conf_file \in ConfFiles, dflt \in {defaults_A, AltDefaults_A} :
          New(init_A(heap, file, conf_file, dflt), conf_file, dflt)

New_B ==
    /\ variant = "B"
    /\ \E conf_file \in ConfFiles, dflt \in {defaults_B, AltDefaults_B} :
          New(init_B(heap, file, conf_file, dflt), conf_file, dflt)

Update_A ==
    /\ variant = "A" /\ Held
    /\ \E conf \in ConfsA : Commit("update", update_A(dict, heap, conf), "", conf)
    /\ UNCHANGED <<variant, instance, handles, file, saved, removed>>

Update_B ==
    /\ variant = "B" /\ Held
    /\ \E conf \in ConfsB : Commit("update", update_B(dict, heap, conf), "", conf)
    /\ UNCHANGED <<variant, instance, handles, file, saved, removed>>

SetItem_A ==
    /\ variant = "A" /\ Held
    /\ \E e \in Entries("A") :
          Commit("setitem", setitem_A(dict, heap, e[1], e[2]), "", DictLit(<<e>>))
    /\ UNCHANGED <<variant, instance, handles, file, saved, removed>>

SetItem_B ==
    /\ variant = "B" /\ Held
    /\ \E e \in Entries("B") :
          Commit("setitem", setitem_B(dict, heap, e[1], e[2]), "", DictLit(<<e>>))
    /\ UNCHANGED <<variant, instance, handles, file, saved, removed>>

\* store.key = value: neither class defines __setattr__, so the value goes
\* into __dict__ as it is
setattr(d, h, key, value) ==
    [res |-> "ok", dict |-> store(d, h, key, value).dict,
     heap |-> store(d, h, key, value).heap]

SetAttr_A ==
    /\ variant = "A" /\ Held
    /\ \E e \in AttrEntries("A") :
          Commit("setattr", setattr(dict, heap, e[1], e[2]), "", DictLit(<<e>>))
    /\ UNCHANGED <<variant, instance, handles, file, saved, removed>>

SetAttr_B ==
    /\ variant = "B" /\ Held
    /\ \E e \in AttrEntries("B") :
          Commit("setattr", setattr(dict, heap, e[1], e[2]), "", DictLit(<<e>>))
    /\ UNCHANGED <<variant, instance, handles, file, saved, removed>>

DelItem_B ==
    /\ variant = "B" /\ Held
    /\ \E key \in KeysOf("B") :
          Commit("delitem", delitem_B(dict, heap, key), "", Str(key))
    /\ removed' = (removed \/ dict' # dict)
    /\ UNCHANGED <<variant, instance, handles, file, saved>>

Clear_B ==
    /\ variant = "B" /\ Held
    /\ Commit("clear", clear_B(dict, heap), "", NoArg)
    /\ removed' = (removed \/ dict' # dict)
    /\ UNCHANGED <<variant, instance, handles, file, saved>>

Load_A ==
    /\ variant = "A" /\ Held
    /\ \E conf_file \in ConfFiles :
          Commit("load", load_A(dict, heap, file, conf_file), conf_file,
                 read(file, conf_file).conf)
    /\ UNCHANGED <<variant, instance, handles, file, saved, removed>>

Load_B ==
    /\ variant = "B" /\ Held
    /\ \E conf_file \in ConfFiles :
          Commit("load", load_B(dict, heap, file, conf_file), conf_file,
                 read(file, conf_file).conf)
    /\ UNCHANGED <<variant, instance, handles, file, saved, removed>>

Save(conf_file) ==
    /\ file' = save(dict, heap, file, conf_file).file
    /\ saved' = IF save(dict, heap, file, conf_file).res = "ok"
                THEN [ok |-> TRUE, m |-> View(dict, heap)]
                ELSE IF file' = file THEN saved ELSE NothingSaved
    /\ last' = Call("save", save(dict, heap, file, conf_file).res, FALSE,
                    conf_file, NoArg, dict, heap)
    /\ UNCHANGED <<variant, instance, handles, dict, heap, removed>>

Save_A == variant = "A" /\ Held /\ \E conf_file \in ConfFiles : Save(conf_file)

Save_B == variant = "B" /\ Held /\ \E conf_file \in ConfFiles : Save(conf_file)

Reset_B ==
    /\ variant = "B" /\ Held
    /\ Commit("reset", reset_B(dict, heap), "", NoArg)
    /\ UNCHANGED <<variant, instance, handles, file, saved, removed>>

\* store["unique_data_dir"][k] = v: __getitem__ hands out the dict object the
\* store holds, and the caller writes into it
InPlace_B ==
    /\ variant = "B" /\ Held
    /\ Has(dict, "unique_data_dir") /\ Get(dict, "unique_data_dir").t = "ref"
    /\ \E e \in InPlaceEntries :
          /\ heap' = [heap EXCEPT ![Get(dict, "unique_data_dir").s] = Put(@, e[1], e[2])]
          /\ last' = Call("inplace", "ok", FALSE, "", DictLit(<<e>>), dict, heap')
    /\ UNCHANGED <<variant, instance, handles, dict, file, saved, removed>>

\* the process ends and a new one imports the module; the file system stays
Restart ==
    /\ instance' = import(variant, file).instance
    /\ handles' = import(variant, file).handles
    /\ dict' = import(variant, file).dict
    /\ heap' = import(variant, file).heap
    /\ removed' = FALSE
    /\ last' = Imported(variant, file)
    /\ UNCHANGED <<variant, file, saved>>

\* the calls on the store itself
Next ==
    \/ New_A \/ Update_A \/ SetItem_A \/ SetAttr_A \/ Load_A \/ Save_A
    \/ New_B \/ Update_B \/ SetItem_B \/ SetAttr_B \/ DelItem_B \/ Clear_B
    \/ Load_B \/ Save_B \/ Reset_B
    \/ Restart

Spec == Init /\ [][Next]_vars

\* Variant B with callers that also write into the values they read
InitB == Init /\ variant = "B"
NextShared == New_B \/ Update_B \/ SetItem_B \/ Load_B \/ Reset_B \/ InPlace_B
SpecShared == InitB /\ [][NextShared]_vars

TypeOK ==
    /\ variant \in {"A", "B"}
    /\ instance = 1
    /\ handles \subseteq {instance}

----------------------------------------------------------------------------
(* Properties *)

Mapping == View(dict, heap)
IsMapping(v) == v.t = "dict"
Submitted(k) == IsMapping(last'.arg) /\ Has(last'.arg.m, k)

\* a value as the field rules of Variant B want it stored
WellFormed_B(k, v) ==
    /\ k = "data_dir" => v.t = "str"
    /\ k = "unique_data_dir" =>
          /\ v.t = "dict"
          /\ \A i \in DOMAIN v.m : v.m[i][1] \in DATA_SETS /\ v.m[i][2].t = "str"

\* C1: every construction call that returns hands out the one instance of the
\* process, and a construction call made after the first (the one the import
\* makes) leaves the store's mapping as it was, whatever its arguments.
C1_Singleton ==
    [][/\ (last'.op \in {"import", "new"} /\ last'.res = "ok") =>
             (handles' = {instance'} /\ Cardinality(handles') = 1)
       /\ last'.op = "new" =>
             (last'.res = "ok" /\ instance' = instance /\ dict' = dict /\ heap' = heap)]_vars

\* Variant B: a later construction call, with the caller's own defaults, on a
\* store that an update has given a further key since it was built
C1_Witness ==
    /\ variant = "B"
    /\ last.op = "new" /\ last.res = "ok" /\ ~last.fresh
    /\ last.arg = DictLit(AltDefaults_B)
    /\ Has(dict, "note") /\ Get(dict, "data_dir") = Str(DEFAULT_DIR)
    /\ handles = {instance}

\* C2: in Variant B a stored data_dir is a string and a stored unique_data_dir
\* is a mapping from recognized dataset names to strings.
C2_Original ==
    variant = "B" =>
        \A i \in DOMAIN Mapping : WellFormed_B(Mapping[i][1], Mapping[i][2])

\* C3: in Variant A an update, item assignment or load that submits a
\* data_path which does not exist fails and leaves the mapping as it was.
C3_RejectsMissingPath ==
    [][(/\ variant = "A"
        /\ last'.op \in {"update", "setitem", "load"}
        /\ Submitted("data_path")
        /\ ~PathExists(Get(last'.arg.m, "data_path")))
       => (last'.res # "ok" /\ dict' = dict /\ heap' = heap)]_vars

\* a rejected update that also submitted a key the store does not hold
C3_Witness ==
    /\ variant = "A" /\ last.op = "update" /\ last.res = "ValueError"
    /\ IsMapping(last.arg) /\ Has(last.arg.m, "data_path") /\ Has(last.arg.m, "note")
    /\ ~PathExists(Get(last.arg.m, "data_path"))
    /\ Has(dict, "data_path") /\ ~Has(dict, "note")

\* C4: in Variant B an update or load is all-or-nothing: if it fails the
\* mapping is as it was, if it succeeds every submitted key is in the store.
C4_Original ==
    [][(variant = "B" /\ last'.op \in {"update", "load"} /\ IsMapping(last'.arg))
       => IF last'.res = "ok"
          THEN \A k \in Keys(last'.arg.m) : Has(dict', k)
          ELSE dict' = dict /\ heap' = heap]_vars

\* C5: in Variant B reset() succeeds and leaves exactly the original defaults:
\* data_dir the default cache directory, unique_data_dir empty, nothing else.
C5_ResetRestoresDefaults ==
    (variant = "B" /\ last.op = "reset") =>
        /\ last.res = "ok"
        /\ SameMapping(Mapping, << <<"data_dir", Str(DEFAULT_DIR)>>,
                                   <<"unique_data_dir", DictLit(<<>>)>> >>)

\* a reset of a store that did not hold the defaults
C5_Witness ==
    variant = "B" /\ last.op = "reset" /\ last.changed /\ ~last.fromDefaults

\* the mappings the round trip is claimed for: what successful updates leave
ValidMapping(v, m) ==
    IF v = "A"
    THEN /\ Has(m, "data_path") /\ PathExists(Get(m, "data_path"))
         /\ \A i \in DOMAIN m : m[i][2].t = "str"
    ELSE /\ {"data_dir", "unique_data_dir"} \subseteq Keys(m)
         /\ \A i \in DOMAIN m :
               /\ WellFormed_B(m[i][1], m[i][2])
               /\ m[i][1] # "unique_data_dir" => m[i][2].t = "str"

\* C6: save() leaves the mapping as it is, and loading the file a save wrote
\* for a valid mapping M into a store that holds the defaults yields M.
C6_RoundTrip ==
    [][/\ last'.op = "save" => (dict' = dict /\ heap' = heap)
       /\ (/\ last'.op = "load" /\ last'.path = LOCAL_CONFIG
           /\ saved.ok /\ ValidMapping(variant, saved.m)
           /\ SameMapping(Mapping, OriginalDefaults(variant)))
          => (last'.res = "ok" /\ SameMapping(View(dict', heap'), saved.m))]_vars

\* Variant B: a load into a store at its defaults brought back a saved mapping
\* with a changed data_dir, a dataset directory and a further key
C6_Witness ==
    /\ variant = "B" /\ last.op = "load" /\ last.res = "ok"
    /\ last.fromDefaults /\ last.changed
    /\ saved.ok /\ ValidMapping("B", saved.m) /\ SameMapping(Mapping, saved.m)
    /\ Has(saved.m, "note")
    /\ Get(saved.m, "data_dir") # Str(DEFAULT_DIR)
    /\ Get(saved.m, "unique_data_dir").m # <<>>

\* what the first construction is claimed to build: the defaults overlaid with
\* the entries of the file, if there is one
FileEntries(f, conf_file) ==
    IF exists(f, conf_file) THEN read(f, conf_file).conf.m ELSE <<>>
Overlay(dflt, f, conf_file) == Merge(View(dflt, EmptyHeap), FileEntries(f, conf_file))
Acceptable(v, m) ==
    IF v = "A" THEN Has(m, "data_path") /\ PathExists(Get(m, "data_path"))
    ELSE \A i \in DOMAIN m : WellFormed_B(m[i][1], m[i][2])

\* C7: the first construction (the import's) yields the defaults overlaid with
\* the entries of the local file (the defaults alone when there is no file),
\* whenever the file is a JSON object and the overlaid mapping passes
\* validation.
C7_Original ==
    (/\ last.op = "import"
     /\ exists(file, LOCAL_CONFIG) => (file.st = "json" /\ file.j.t = "jobj")
     /\ Acceptable(variant, Overlay(last.arg.m, file, LOCAL_CONFIG)))
    => /\ last.res = "ok"
       /\ SameMapping(Mapping, Overlay(last.arg.m, file, LOCAL_CONFIG))

\* C8: in Variant A an update that does not mention data_path is accepted when
\* the stored data_path exists, and merges its entries.
C8_Original ==
    [][(/\ variant = "A" /\ last'.op = "update"
        /\ IsMapping(last'.arg) /\ ~Has(last'.arg.m, "data_path")
        /\ Has(dict, "data_path") /\ PathExists(Get(dict, "data_path")))
       => (last'.res = "ok" /\ dict' = Merge(dict, last'.arg.m))]_vars

\* C9: a construction call that returns, the import's or a later one (also
\* one made after the import's call failed on the local file), yields a store
\* with every key of the defaults, no key having been deleted.
C9_Original ==
    (last.op \in {"import", "new"} /\ last.res = "ok" /\ ~removed)
    => Keys(OriginalDefaults(variant)) \subseteq Keys(dict)

\* C10: in Variant B the module-level defaults stay as written: its
\* unique_data_dir is the empty mapping.
C10_Original == variant = "B" => View(defaults_B, heap) = OriginalDefaults("B")

====
